---------------------------- MODULE Spec2Model ----------------------------
(***************************************************************************)
(* Model of src/test_parsing.py: the evalNm location parser                *)
(* (extract_location_from_evalNm), the gazetteer loader (load_seoul_dongs),*)
(* the batch loop (test_parsing_on_samples), the success rates             *)
(* (calculate_success_rate) and the go/no-go report                        *)
(* (generate_parsing_report), sequenced as main() sequences them.          *)
(*                                                                         *)
(* Text is a sequence of characters; a character is a short string naming  *)
(* one code point (romanised): "seo" is the syllable of 서, "gu" of 구,    *)
(* "sp" a blank, "," a comma, "nl" a line feed, "1" a digit.               *)
(* Python's None is the empty sequence: the code only ever tests these     *)
(* fields for truthiness, and no regex here can match the empty string.    *)
(***************************************************************************)
EXTENDS Integers, Sequences, FiniteSets

VARIABLES
    pc,                 \* position in main() / in one extract call
    dong_file,          \* content of SEOUL_DONG_FILE, or Missing
    names_file,         \* content of eval_names_sample.json, or Missing
    seoul_dongs,        \* the gazetteer: district -> list of dongs
    eval_names,         \* the labels of the batch
    eval_nm,            \* the label of the current extract call
    location,           \* the result of the current extract call
    results,            \* the list test_parsing_on_samples builds
    success_rates,      \* the dict calculate_success_rate returns
    confidence_counts,  \* the Counter of generate_parsing_report
    decision            \* the branch generate_parsing_report takes

vars == <<pc, dong_file, names_file, seoul_dongs, eval_names, eval_nm,
          location, results, success_rates, confidence_counts, decision>>

-----------------------------------------------------------------------------
(* Bounds of the model *)

\* longest label of the extract specification
MaxLen == 5

\* longest batch of the pipeline specification (equal labels adjacent)
MaxBatch == 10

\* longest batch of the pipeline specification with its labels in any order
MaxMixed == 3

\* most lines of a reference file of the loader specification
MaxLines == 4

-----------------------------------------------------------------------------
(* Characters and text *)

None == <<>>

\* a file that does not exist (Path.exists() is false)
Missing == [exists |-> FALSE, content |-> <<>>]

\* a file that exists, with its content
File(content) == [exists |-> TRUE, content |-> content]

\* the syllables of [가-힣] that the model names
Hangul ==
    {"seo", "ul", "bu", "san", "dae", "gu", "in", "cheon", "gwang", "ju",
     "jeon", "se", "jong", "dong", "eup", "myeon", "teuk", "byeol", "si"}

\* whitespace, as str.strip() sees it
Whitespace == {"sp", "nl"}

Min(S) == CHOOSE x \in S : \A y \in S : x <= y

\* truthiness of an optional string (None and '' are falsy)
Truthy(x) == x # None

RECURSIVE TextsUpTo(_, _)
\* all texts over the alphabet A of length at most n
TextsUpTo(A, n) ==
    IF n = 0 THEN {<<>>}
    ELSE LET shorter == TextsUpTo(A, n - 1)
         IN  shorter \cup {Append(t, c) : t \in shorter, c \in A}

-----------------------------------------------------------------------------
(* The patterns of extract_location_from_evalNm *)

\* city_pattern: the alternation, in its order
city_pattern ==
    << <<"seo", "ul">>, <<"bu", "san">>, <<"dae", "gu">>, <<"in", "cheon">>,
       <<"gwang", "ju">>, <<"dae", "jeon">>, <<"ul", "san">>, <<"se", "jong">> >>

\* district_pattern: [가-힣]+ followed by this syllable
district_pattern == <<"gu">>

\* dong_pattern: [가-힣]+ followed by one of these, alternatives in order
dong_pattern == <<"dong", "eup", "myeon">>

\* '서울특별시'
SeoulTeukbyeolsi == <<"seo", "ul", "teuk", "byeol", "si">>

\* the alternatives of city_pattern: distinct words of two syllables, so
\* at most one of them matches at a position and their order decides nothing
CityNames == {city_pattern[a] : a \in 1..Len(city_pattern)}

RECURSIVE SearchCityFrom(_, _)
\* the scan of re.search from position i on: the first position where an
\* alternative matches, and the word matched there; None without a match
SearchCityFrom(s, i) ==
    IF i + 1 > Len(s) THEN None
    ELSE IF SubSeq(s, i, i + 1) \in CityNames THEN SubSeq(s, i, i + 1)
         ELSE SearchCityFrom(s, i + 1)

\* re.search(city_pattern, s).group(1), None without a match
ReSearchCity(s) == SearchCityFrom(s, 1)

RECURSIVE RunEnd(_, _)
\* the first position at or after i that is not a [가-힣] syllable of s
RunEnd(s, i) ==
    IF i > Len(s) \/ s[i] \notin Hangul THEN i ELSE RunEnd(s, i + 1)

RECURSIVE LastIndex(_, _, _, _)
\* the last position in lo..hi that holds the syllable c, 0 when none does
LastIndex(s, lo, hi, c) ==
    IF hi < lo THEN 0
    ELSE IF s[hi] = c THEN hi
         ELSE LastIndex(s, lo, hi - 1, c)

\* [가-힣]+suffix tried at position i, r being the end of the run of
\* syllables that starts at i: the greedy run backtracks to the last suffix
\* syllable after i in the run; 0 when the alternative fails at i
GreedyEnd(s, i, r, suffix) == LastIndex(s, i + 1, r - 1, suffix)

RECURSIVE AltEndFrom(_, _, _, _, _)
\* the alternatives from the a-th on, tried in order at position i
AltEndFrom(s, i, r, suffixes, a) ==
    IF a > Len(suffixes) THEN 0
    ELSE LET e == GreedyEnd(s, i, r, suffixes[a])
         IN  IF e # 0 THEN e ELSE AltEndFrom(s, i, r, suffixes, a + 1)

\* the alternation tried at position i: the end of the first alternative
\* that matches, 0 when none does
AltEnd(s, i, suffixes) == AltEndFrom(s, i, RunEnd(s, i), suffixes, 1)

RECURSIVE FindAllFrom(_, _, _)
\* re.findall from position pos on: non-overlapping matches, left to right
FindAllFrom(s, pos, suffixes) ==
    IF pos > Len(s) THEN <<>>
    ELSE LET e == AltEnd(s, pos, suffixes)
         IN  IF e = 0 THEN FindAllFrom(s, pos + 1, suffixes)
             ELSE <<SubSeq(s, pos, e)>> \o FindAllFrom(s, e + 1, suffixes)

\* re.findall(pattern, s) for a pattern ([가-힣]+x|[가-힣]+y|...)
ReFindAll(suffixes, s) == FindAllFrom(s, 1, suffixes)

-----------------------------------------------------------------------------
(* The gazetteer as a dict of lists *)

\* the members of a list
Elems(list) == {list[k] : k \in 1..Len(list)}

\* seoul_dongs.get(district, [])
DictGet(dict, key) == IF key \in DOMAIN dict THEN dict[key] ELSE <<>>

\* the first element of list that is in S, None when there is none
FirstIn(list, S) ==
    LET K == {k \in 1..Len(list) : list[k] \in S}
    IN  IF K = {} THEN None ELSE list[Min(K)]

-----------------------------------------------------------------------------
(* extract_location_from_evalNm *)

\* variant: the confidence starts outside the three tiers
InitialLocationNone ==
    [city |-> None, district |-> None, dong |-> None, confidence |-> "none"]

\* the dict the function starts from
InitialLocation ==
    [city |-> None, district |-> None, dong |-> None, confidence |-> "low"]

\* 1. the city pass
CityPass(loc, s) ==
    LET city == ReSearchCity(s)
    IN  IF city = None THEN loc
        ELSE IF city = <<"seo", "ul">>
             THEN [loc EXCEPT !.city = SeoulTeukbyeolsi]
             ELSE [loc EXCEPT !.city = city]

\* variant: a gazetteer district leaves the city as the city pass set it
DistrictPassKeepCity(loc, s, dongs) ==
    LET district_matches == ReFindAll(district_pattern, s)
        key == FirstIn(district_matches, DOMAIN dongs)
    IN  IF district_matches = <<>> THEN loc
        ELSE IF key # None
             THEN [loc EXCEPT !.district = key]
             ELSE [loc EXCEPT !.district = district_matches[1]]

\* variant: the district is the first match, a gazetteer key or not
DistrictPassFirst(loc, s, dongs) ==
    LET district_matches == ReFindAll(district_pattern, s)
    IN  IF district_matches = <<>> THEN loc
        ELSE IF district_matches[1] \in DOMAIN dongs
             THEN [loc EXCEPT !.district = district_matches[1],
                              !.city = SeoulTeukbyeolsi]
             ELSE [loc EXCEPT !.district = district_matches[1]]

\* 2. the district pass: the first match that is a gazetteer key, and then
\* the city is Seoul; otherwise the first match
DistrictPass(loc, s, dongs) ==
    LET district_matches == ReFindAll(district_pattern, s)
        key == FirstIn(district_matches, DOMAIN dongs)
    IN  IF district_matches = <<>> THEN loc
        ELSE IF key # None
             THEN [loc EXCEPT !.district = key, !.city = SeoulTeukbyeolsi]
             ELSE [loc EXCEPT !.district = district_matches[1]]

\* variant: the fallback is marked high as well
DongPassFallbackHigh(loc, s, dongs) ==
    LET dong_matches == ReFindAll(dong_pattern, s)
        valid_dongs == DictGet(dongs, loc.district)
        valid == FirstIn(dong_matches, Elems(valid_dongs))
    IN  IF dong_matches = <<>> \/ ~Truthy(loc.district) THEN loc
        ELSE IF valid # None
             THEN [loc EXCEPT !.dong = valid, !.confidence = "high"]
             ELSE [loc EXCEPT !.dong = dong_matches[1], !.confidence = "high"]

\* variant: the fallback is the last match
DongPassLast(loc, s, dongs) ==
    LET dong_matches == ReFindAll(dong_pattern, s)
        valid_dongs == DictGet(dongs, loc.district)
        valid == FirstIn(dong_matches, Elems(valid_dongs))
    IN  IF dong_matches = <<>> \/ ~Truthy(loc.district) THEN loc
        ELSE IF valid # None
             THEN [loc EXCEPT !.dong = valid, !.confidence = "high"]
             ELSE [loc EXCEPT !.dong = dong_matches[Len(dong_matches)],
                              !.confidence = "medium"]

\* variant: the pass is attempted without a district as well
DongPassNoDistrictGuard(loc, s, dongs) ==
    LET dong_matches == ReFindAll(dong_pattern, s)
        valid_dongs == DictGet(dongs, loc.district)
        valid == FirstIn(dong_matches, Elems(valid_dongs))
    IN  IF dong_matches = <<>> THEN loc
        ELSE IF valid # None
             THEN [loc EXCEPT !.dong = valid, !.confidence = "high"]
             ELSE [loc EXCEPT !.dong = dong_matches[1], !.confidence = "medium"]

\* 3. the dong pass: the first match in the district's list (high),
\* otherwise the first match (medium)
DongPass(loc, s, dongs) ==
    LET dong_matches == ReFindAll(dong_pattern, s)
        valid_dongs == DictGet(dongs, loc.district)
        valid == FirstIn(dong_matches, Elems(valid_dongs))
    IN  IF dong_matches = <<>> \/ ~Truthy(loc.district) THEN loc
        ELSE IF valid # None
             THEN [loc EXCEPT !.dong = valid, !.confidence = "high"]
             ELSE [loc EXCEPT !.dong = dong_matches[1], !.confidence = "medium"]

\* variant: the two branches of the adjustment in the other order
AdjustSwapped(loc) ==
    IF Truthy(loc.city) \/ Truthy(loc.district)
    THEN [loc EXCEPT !.confidence = "low"]
    ELSE IF Truthy(loc.city) /\ Truthy(loc.district) /\ Truthy(loc.dong)
         THEN IF loc.confidence # "high"
              THEN [loc EXCEPT !.confidence = "medium"]
              ELSE loc
         ELSE loc

\* variant: the adjustment without its second branch
AdjustNoDowngrade(loc) ==
    IF Truthy(loc.city) /\ Truthy(loc.district) /\ Truthy(loc.dong)
    THEN IF loc.confidence # "high"
         THEN [loc EXCEPT !.confidence = "medium"]
         ELSE loc
    ELSE loc

\* the final adjustment of the confidence
AdjustConfidence(loc) ==
    IF Truthy(loc.city) /\ Truthy(loc.district) /\ Truthy(loc.dong)
    THEN IF loc.confidence # "high"
         THEN [loc EXCEPT !.confidence = "medium"]
         ELSE loc
    ELSE IF Truthy(loc.city) \/ Truthy(loc.district)
         THEN [loc EXCEPT !.confidence = "low"]
         ELSE loc

\* the location before the final adjustment
Provisional(s, dongs) ==
    DongPass(DistrictPass(CityPass(InitialLocation, s), s, dongs), s, dongs)

extract_location_from_evalNm(s, dongs) == AdjustConfidence(Provisional(s, dongs))

-----------------------------------------------------------------------------
(* load_seoul_dongs *)

RECURSIVE LStrip(_)
LStrip(t) == IF t # <<>> /\ Head(t) \in Whitespace THEN LStrip(Tail(t)) ELSE t

RECURSIVE RStrip(_)
RStrip(t) ==
    IF t # <<>> /\ t[Len(t)] \in Whitespace
    THEN RStrip(SubSeq(t, 1, Len(t) - 1))
    ELSE t

\* line.strip()
Strip(t) == RStrip(LStrip(t))

RECURSIVE Split(_, _)
\* t.split(sep): the fields between the separators, empty fields included
Split(t, sep) ==
    LET K == {k \in 1..Len(t) : t[k] = sep}
    IN  IF K = {} THEN <<t>>
        ELSE <<SubSeq(t, 1, Min(K) - 1)>>
                 \o Split(SubSeq(t, Min(K) + 1, Len(t)), sep)

\* variant: a row replaces the list of its district
AddLineOverwrite(dict, line) ==
    LET parts == Split(Strip(line), ",")
    IN  IF Len(parts) >= 3
        THEN LET district == parts[2]
                 dong == parts[3]
             IN  [d \in (DOMAIN dict) \cup {district} |->
                     IF d = district THEN <<dong>> ELSE dict[d]]
        ELSE dict

\* one pass of the loop over the lines: a row of at least three fields
\* appends its third field to the list of its second
AddLine(dict, line) ==
    LET parts == Split(Strip(line), ",")
    IN  IF Len(parts) >= 3
        THEN LET district == parts[2]
                 dong == parts[3]
             IN  [d \in (DOMAIN dict) \cup {district} |->
                     IF d = district
                     THEN Append(DictGet(dict, d), dong)
                     ELSE dict[d]]
        ELSE dict

RECURSIVE AddLines(_, _)
AddLines(dict, lines) ==
    IF lines = <<>> THEN dict
    ELSE AddLines(AddLine(dict, Head(lines)), Tail(lines))

\* the empty dict when the file is missing; otherwise the rows after the
\* header line, grouped by district
load_seoul_dongs(file) ==
    IF ~file.exists THEN <<>>
    ELSE AddLines(<<>>, IF file.content = <<>> THEN <<>> ELSE Tail(file.content))

-----------------------------------------------------------------------------
(* calculate_success_rate and generate_parsing_report *)

\* n / total * 100, kept as the exact quotient num/den.  For every total the
\* model reaches, the double the code computes compares with 0, with 100,
\* with the threshold and with another rate of the same total as this
\* quotient does.
Rate(n, total) == [num |-> n * 100, den |-> total]

\* the literal 0.0
ZeroRate == [num |-> 0, den |-> 1]

\* a <= b for two rates
RateLeq(a, b) == a.num * b.den <= b.num * a.den

\* rate >= x for a whole number x
RateGeq(a, x) == a.num >= x * a.den

\* rate = x for a whole number x
RateIs(a, x) == a.num = x * a.den

\* sum(1 for r in rs if ...), one definition per condition
CountCity(rs) == Cardinality({k \in 1..Len(rs) : Truthy(rs[k].city)})

CountDistrict(rs) == Cardinality({k \in 1..Len(rs) : Truthy(rs[k].district)})

CountDong(rs) == Cardinality({k \in 1..Len(rs) : Truthy(rs[k].dong)})

\* variant: a result counts as soon as one field is set
CountOverallAny(rs) ==
    Cardinality({k \in 1..Len(rs) :
        Truthy(rs[k].city) \/ Truthy(rs[k].district) \/ Truthy(rs[k].dong)})

CountOverall(rs) ==
    Cardinality({k \in 1..Len(rs) :
        Truthy(rs[k].city) /\ Truthy(rs[k].district) /\ Truthy(rs[k].dong)})

\* variant: no early return for the empty list
calculate_success_rate_unguarded(rs) ==
    LET total == Len(rs)
    IN  [city_rate |-> Rate(CountCity(rs), total),
         district_rate |-> Rate(CountDistrict(rs), total),
         dong_rate |-> Rate(CountDong(rs), total),
         overall_rate |-> Rate(CountOverall(rs), total)]

calculate_success_rate(rs) ==
    LET total == Len(rs)
    IN  IF total = 0
        THEN [city_rate |-> ZeroRate, district_rate |-> ZeroRate,
              dong_rate |-> ZeroRate, overall_rate |-> ZeroRate]
        ELSE [city_rate |-> Rate(CountCity(rs), total),
              district_rate |-> Rate(CountDistrict(rs), total),
              dong_rate |-> Rate(CountDong(rs), total),
              overall_rate |-> Rate(CountOverall(rs), total)]

\* Counter(r['confidence'] for r in rs)
Counter(rs) ==
    [c \in {rs[k].confidence : k \in 1..Len(rs)} |->
        Cardinality({k \in 1..Len(rs) : rs[k].confidence = c})]

\* confidence_counts.get(conf, 0)
CounterGet(counter, conf) ==
    IF conf \in DOMAIN counter THEN counter[conf] ELSE 0

\* the tiers the report lists
ReportedTiers == {"high", "medium", "low"}

\* threshold = 70.0
threshold == 70

\* variant: the threshold itself fails
VerdictStrict(rates) ==
    IF ~RateLeq(rates.overall_rate, Rate(threshold, 100)) THEN "go" ELSE "nogo"

\* the branch of the report: overall_rate >= threshold
Verdict(rates) == IF RateGeq(rates.overall_rate, threshold) THEN "go" ELSE "nogo"

-----------------------------------------------------------------------------
(* Inputs *)

\* the syllables and the blank that the labels of one extract call are
\* written in: 대구 is a city name and a district match at once, 구 ends a
\* district, 동 and 면 end a dong, 울 is any other syllable
LabelAlphabet == {"ul", "dae", "gu", "dong", "myeon", "sp"}

Labels == TextsUpTo(LabelAlphabet, MaxLen)

HeaderLine == <<"si", ",", "gu", ",", "dong", "nl">>

LineUlGuUlDong == <<"1", ",", "ul", "gu", ",", "ul", "dong", "nl">>

LineDaeGuUlDong == <<"1", ",", "dae", "gu", ",", "ul", "dong", "nl">>

LineUlGuUlMyeon == <<"1", ",", "ul", "gu", ",", "ul", "myeon", "nl">>

LineShort == <<"1", ",", "ul", "gu", "nl">>

\* the reference files the specifications start from
SampleDongFiles ==
    { Missing,
      File(<<HeaderLine>>),
      File(<<HeaderLine, LineDaeGuUlDong>>),
      File(<<HeaderLine, LineShort, LineUlGuUlMyeon>>),
      File(<<HeaderLine, LineUlGuUlDong, LineUlGuUlMyeon>>) }

\* the labels of the batches: "울구 울동", "서울" and the empty label
LabelUlGuUlDong == <<"ul", "gu", "sp", "ul", "dong">>

LabelSeoul == <<"seo", "ul">>

LabelEmpty == <<>>

SampleLabels == {LabelUlGuUlDong, LabelSeoul, LabelEmpty}

\* JSON values that are no str (null, a number), each written as a one-element
\* sequence naming its Python type; no text holds such an element
MalformedLabels == { <<"NoneType">>, <<"int">> }

\* variant: every value passes for a string
IsStrAny(x) == TRUE

\* whether re.search and re.findall accept x as the string to scan; any
\* other value makes them raise TypeError
IsStr(x) == x \notin MalformedLabels

RECURSIVE Repeat(_, _)
\* the batch of n times the label x
Repeat(x, n) == IF n = 0 THEN <<>> ELSE Append(Repeat(x, n - 1), x)

\* batches of up to MaxBatch labels, equal labels adjacent
GroupedBatches ==
    {Repeat(LabelUlGuUlDong, a) \o Repeat(LabelSeoul, b) \o Repeat(LabelEmpty, c) :
        <<a, b, c>> \in {t \in (0..MaxBatch) \X (0..MaxBatch) \X (0..MaxBatch) :
                            t[1] + t[2] + t[3] <= MaxBatch}}

\* batches of up to MaxMixed labels in every order
MixedBatches == TextsUpTo(SampleLabels \cup MalformedLabels, MaxMixed)

\* the sample files the pipeline starts from
SampleNamesFiles == {Missing} \cup {File(b) : b \in GroupedBatches \cup MixedBatches}

NoRates == <<>>

NoCounts == <<>>

-----------------------------------------------------------------------------
(* One call of extract_location_from_evalNm on any label *)

InitExtract ==
    /\ pc = "call"
    /\ dong_file \in SampleDongFiles
    /\ seoul_dongs = load_seoul_dongs(dong_file)
    /\ eval_nm \in Labels
    /\ location = InitialLocation
    /\ names_file = Missing
    /\ eval_names = <<>>
    /\ results = <<>>
    /\ success_rates = NoRates
    /\ confidence_counts = NoCounts
    /\ decision = "pending"

ExtractCall ==
    /\ pc = "call"
    /\ location' = extract_location_from_evalNm(eval_nm, seoul_dongs)
    /\ pc' = "return"
    /\ UNCHANGED <<dong_file, names_file, seoul_dongs, eval_names, eval_nm,
                   results, success_rates, confidence_counts, decision>>

NextExtract == ExtractCall

SpecExtract == InitExtract /\ [][NextExtract]_vars

-----------------------------------------------------------------------------
(* load_seoul_dongs on any reference file *)

\* the lines the reference files of the loader specification are made of
LoadLines ==
    {HeaderLine, LineUlGuUlDong, LineDaeGuUlDong, LineUlGuUlMyeon, LineShort}

\* no file, or a file of up to MaxLines of these lines in any order
LoadFiles == {Missing} \cup {File(ls) : ls \in TextsUpTo(LoadLines, MaxLines)}

InitLoad ==
    /\ pc = "load_dongs"
    /\ dong_file \in LoadFiles
    /\ names_file = Missing
    /\ seoul_dongs = <<>>
    /\ eval_names = <<>>
    /\ eval_nm = None
    /\ location = InitialLocation
    /\ results = <<>>
    /\ success_rates = NoRates
    /\ confidence_counts = NoCounts
    /\ decision = "pending"

-----------------------------------------------------------------------------
(* main(): load, parse every label, rate, report *)

Init ==
    /\ pc = "load_dongs"
    /\ dong_file \in SampleDongFiles
    /\ names_file \in SampleNamesFiles
    /\ seoul_dongs = <<>>
    /\ eval_names = <<>>
    /\ eval_nm = None
    /\ location = InitialLocation
    /\ results = <<>>
    /\ success_rates = NoRates
    /\ confidence_counts = NoCounts
    /\ decision = "pending"

LoadDongs ==
    /\ pc = "load_dongs"
    /\ seoul_dongs' = load_seoul_dongs(dong_file)
    /\ pc' = "load_names"
    /\ UNCHANGED <<dong_file, names_file, eval_names, eval_nm, location,
                   results, success_rates, confidence_counts, decision>>

\* main() returns when the sample file is missing
NamesMissing ==
    /\ pc = "load_names"
    /\ ~names_file.exists
    /\ pc' = "done"
    /\ UNCHANGED <<dong_file, names_file, seoul_dongs, eval_names, eval_nm,
                   location, results, success_rates, confidence_counts,
                   decision>>

LoadNames ==
    /\ pc = "load_names"
    /\ names_file.exists
    /\ eval_names' = names_file.content
    /\ pc' = "parse"
    /\ UNCHANGED <<dong_file, names_file, seoul_dongs, eval_nm, location,
                   results, success_rates, confidence_counts, decision>>

\* the dict the loop appends for a label and its location
ResultOf(label, loc) ==
    [eval_nm |-> label,
     city |-> loc.city,
     district |-> loc.district,
     dong |-> loc.dong,
     confidence |-> loc.confidence]

\* variant: the new result goes to the front of the list
ParseStepPrepend ==
    /\ pc = "parse"
    /\ Len(results) < Len(eval_names)
    /\ IsStr(eval_names[Len(results) + 1])
    /\ eval_nm' = eval_names[Len(results) + 1]
    /\ location' = extract_location_from_evalNm(eval_nm', seoul_dongs)
    /\ results' = <<ResultOf(eval_nm', location')>> \o results
    /\ UNCHANGED <<pc, dong_file, names_file, seoul_dongs, eval_names,
                   success_rates, confidence_counts, decision>>

\* the dict with an empty list under key when key is new (dict.setdefault)
SetDefault(dict, key) ==
    [d \in (DOMAIN dict) \cup {key} |-> DictGet(dict, d)]

\* variant: looking up the district's list enters a district that is no key
ParseStepSetDefault ==
    /\ pc = "parse"
    /\ Len(results) < Len(eval_names)
    /\ IsStr(eval_names[Len(results) + 1])
    /\ eval_nm' = eval_names[Len(results) + 1]
    /\ location' = extract_location_from_evalNm(eval_nm', seoul_dongs)
    /\ results' = Append(results, ResultOf(eval_nm', location'))
    /\ seoul_dongs' = IF Truthy(location'.dong)
                      THEN SetDefault(seoul_dongs, location'.district)
                      ELSE seoul_dongs
    /\ UNCHANGED <<pc, dong_file, names_file, eval_names,
                   success_rates, confidence_counts, decision>>

\* one iteration of the loop of test_parsing_on_samples
ParseStep ==
    /\ pc = "parse"
    /\ Len(results) < Len(eval_names)
    /\ IsStr(eval_names[Len(results) + 1])
    /\ eval_nm' = eval_names[Len(results) + 1]
    /\ location' = extract_location_from_evalNm(eval_nm', seoul_dongs)
    /\ results' = Append(results, ResultOf(eval_nm', location'))
    /\ UNCHANGED <<pc, dong_file, names_file, seoul_dongs, eval_names,
                   success_rates, confidence_counts, decision>>

\* the label is no string: re.search raises TypeError in the extract call,
\* nothing catches it, and main() ends with it
ParseRaise ==
    /\ pc = "parse"
    /\ Len(results) < Len(eval_names)
    /\ ~IsStr(eval_names[Len(results) + 1])
    /\ eval_nm' = eval_names[Len(results) + 1]
    /\ pc' = "TypeError"
    /\ UNCHANGED <<dong_file, names_file, seoul_dongs, eval_names, location,
                   results, success_rates, confidence_counts, decision>>

\* the loop is over: test_parsing_on_samples returns results
ParseReturn ==
    /\ pc = "parse"
    /\ Len(results) = Len(eval_names)
    /\ pc' = "rates"
    /\ UNCHANGED <<dong_file, names_file, seoul_dongs, eval_names, eval_nm,
                   location, results, success_rates, confidence_counts,
                   decision>>

CalculateRates ==
    /\ pc = "rates"
    /\ success_rates' = calculate_success_rate(results)
    /\ pc' = "report"
    /\ UNCHANGED <<dong_file, names_file, seoul_dongs, eval_names, eval_nm,
                   location, results, confidence_counts, decision>>

GenerateReport ==
    /\ pc = "report"
    /\ confidence_counts' = Counter(results)
    /\ decision' = Verdict(success_rates)
    /\ pc' = "done"
    /\ UNCHANGED <<dong_file, names_file, seoul_dongs, eval_names, eval_nm,
                   location, results, success_rates>>

Next ==
    \/ LoadDongs
    \/ NamesMissing
    \/ LoadNames
    \/ ParseStep
    \/ ParseRaise
    \/ ParseReturn
    \/ CalculateRates
    \/ GenerateReport

Spec == Init /\ [][Next]_vars

\* main() without a sample file: the gazetteer is loaded and main() returns
NextLoad ==
    \/ LoadDongs
    \/ NamesMissing

SpecLoad == InitLoad /\ [][NextLoad]_vars

-----------------------------------------------------------------------------
(* Properties of one extract call (SpecExtract) *)

\* the call has returned
Returned == pc = "return"

\* the dong of the result is in the gazetteer's list of the result's district
DongValidated ==
    /\ Truthy(location.dong)
    /\ location.dong \in Elems(DictGet(seoul_dongs, location.district))

\* all three fields of the result are non-empty
AllThree ==
    Truthy(location.city) /\ Truthy(location.district) /\ Truthy(location.dong)

\* the label has no city name, no district match and no dong match
NoToken ==
    /\ ReSearchCity(eval_nm) = None
    /\ ReFindAll(district_pattern, eval_nm) = <<>>
    /\ ReFindAll(dong_pattern, eval_nm) = <<>>

\* the label has a district match and a dong match but no city name, and
\* the gazetteer is empty
DistrictAndDongOnly ==
    /\ DOMAIN seoul_dongs = {}
    /\ ReSearchCity(eval_nm) = None
    /\ ReFindAll(district_pattern, eval_nm) # <<>>
    /\ ReFindAll(dong_pattern, eval_nm) # <<>>

\* C1: the returned confidence is high if and only if the returned dong is
\* non-empty and a member of the gazetteer's list of the returned district;
\* with the empty gazetteer no label yields high.
C1_HighIffValidated ==
    Returned =>
        /\ (location.confidence = "high") <=> DongValidated
        /\ (DOMAIN seoul_dongs = {}) => location.confidence # "high"

\* C1 witness: a high result whose dong is the second dong match of the
\* label, the first one not being in the district's list
C1_Witness ==
    /\ Returned
    /\ location.confidence = "high"
    /\ Len(ReFindAll(dong_pattern, eval_nm)) = 2
    /\ location.dong = ReFindAll(dong_pattern, eval_nm)[2]

\* C2 as stated: a label without any token yields all fields none and the
\* confidence NONE.
C2_Original ==
    (Returned /\ NoToken) =>
        /\ location.city = None
        /\ location.district = None
        /\ location.dong = None
        /\ location.confidence = "none"

\* C2 amended: a label without any token (the empty label among them) yields
\* all fields none and the confidence low, the value the result starts with.
C2_NoTokenLow ==
    (Returned /\ NoToken) =>
        /\ location.city = None
        /\ location.district = None
        /\ location.dong = None
        /\ location.confidence = "low"

\* C2 witness: a non-empty label without any token has been extracted
C2_Witness ==
    /\ Returned
    /\ NoToken
    /\ Len(eval_nm) = 3
    /\ location.confidence = "low"

\* C3 as stated: with the empty gazetteer, a district match and a dong match
\* without a city name yield the first district match, the first dong match
\* and the confidence MEDIUM.
C3_Original ==
    (Returned /\ DistrictAndDongOnly) =>
        /\ location.district = ReFindAll(district_pattern, eval_nm)[1]
        /\ location.dong = ReFindAll(dong_pattern, eval_nm)[1]
        /\ location.confidence = "medium"

\* C3 amended: with the empty gazetteer, a district match and a dong match
\* without a city name yield the first district match, the first dong match,
\* no city, and the confidence LOW.
C3_EmptyGazetteerLow ==
    (Returned /\ DistrictAndDongOnly) =>
        /\ location.city = None
        /\ location.district = ReFindAll(district_pattern, eval_nm)[1]
        /\ location.dong = ReFindAll(dong_pattern, eval_nm)[1]
        /\ location.confidence = "low"

\* C3 witness: "울구 울동" extracted with the empty gazetteer
C3_Witness ==
    /\ Returned
    /\ DistrictAndDongOnly
    /\ eval_nm = <<"ul", "gu", "sp", "ul", "dong">>
    /\ location.dong = <<"ul", "dong">>

\* C4: a high result has the city 서울특별시 and a district that is a
\* gazetteer key.
C4_HighHasSeoulAndKey ==
    (Returned /\ location.confidence = "high") =>
        /\ location.city = SeoulTeukbyeolsi
        /\ location.district \in DOMAIN seoul_dongs
        /\ Truthy(location.district)

\* C4 witness: a high result for a label in which the city pass had found
\* another city
C4_Witness ==
    /\ Returned
    /\ location.confidence = "high"
    /\ ReSearchCity(eval_nm) = <<"dae", "gu">>

\* C5: a result with city, district and dong all non-empty is high when the
\* dong is in the gazetteer's list of the district and medium when it is
\* not; it is never low.
C5_AllThreeAtLeastMedium ==
    (Returned /\ AllThree) =>
        /\ DongValidated => location.confidence = "high"
        /\ ~DongValidated => location.confidence = "medium"

\* C5 witness: all three fields set with an unvalidated dong
C5_Witness ==
    /\ Returned
    /\ AllThree
    /\ ~DongValidated
    /\ location.confidence = "medium"

\* C6: a result that is not high and lacks one of the three fields, but has
\* a city or a district, is low; so is a result with a district and an
\* unvalidated dong but no city, whatever the dong pass had set.
C6_PartialIsLow ==
    Returned =>
        /\ ( /\ location.confidence # "high"
             /\ ~AllThree
             /\ Truthy(location.city) \/ Truthy(location.district) )
           => location.confidence = "low"
        /\ ( /\ ~Truthy(location.city)
             /\ Truthy(location.district)
             /\ Truthy(location.dong)
             /\ ~DongValidated )
           => location.confidence = "low"

\* C6 witness: the dong pass had set medium, there is no city, the result
\* is low
C6_Witness ==
    /\ Returned
    /\ Provisional(eval_nm, seoul_dongs).confidence = "medium"
    /\ ~Truthy(location.city)
    /\ Truthy(location.dong)
    /\ location.confidence = "low"

-----------------------------------------------------------------------------
(* Properties of the pipeline (Spec) *)

\* calculate_success_rate has returned
Rated == pc = "report" \/ (pc = "done" /\ names_file.exists)

\* generate_parsing_report has run
Reported == pc = "done" /\ names_file.exists

\* 0 <= rate <= 100
InPercentRange(rate) ==
    /\ rate.den > 0
    /\ 0 <= rate.num
    /\ rate.num <= 100 * rate.den

\* C7: the four rates lie in [0, 100] and the overall rate is at most each
\* of the city, district and dong rates.
C7_RateBounds ==
    Rated =>
        /\ InPercentRange(success_rates.city_rate)
        /\ InPercentRange(success_rates.district_rate)
        /\ InPercentRange(success_rates.dong_rate)
        /\ InPercentRange(success_rates.overall_rate)
        /\ RateLeq(success_rates.overall_rate, success_rates.city_rate)
        /\ RateLeq(success_rates.overall_rate, success_rates.district_rate)
        /\ RateLeq(success_rates.overall_rate, success_rates.dong_rate)

\* C7 witness: every field is found in some result of the batch but in no
\* result all three together: the overall rate is 0 below three rates of 50
C7_Witness ==
    /\ Rated
    /\ Len(results) = 2
    /\ RateIs(success_rates.city_rate, 50)
    /\ RateIs(success_rates.district_rate, 50)
    /\ RateIs(success_rates.dong_rate, 50)
    /\ RateIs(success_rates.overall_rate, 0)

\* C8: for the empty batch the four rates are 0.0 and the report takes the
\* no-go branch.
C8_EmptyBatchFloor ==
    (Reported /\ eval_names = <<>>) =>
        /\ success_rates.city_rate = ZeroRate
        /\ success_rates.district_rate = ZeroRate
        /\ success_rates.dong_rate = ZeroRate
        /\ success_rates.overall_rate = ZeroRate
        /\ decision = "nogo"

\* C8 witness: the pipeline has reported on an empty batch
C8_Witness ==
    /\ Reported
    /\ names_file.content = <<>>
    /\ results = <<>>
    /\ decision = "nogo"

\* C9: the report takes the go branch exactly when the overall rate is at
\* least 70, that is when at least 70 in 100 of the results have all three
\* fields; 7 of 10 is a go with the rate 70, 6 of 10 is a no-go.
C9_ThresholdInclusive ==
    Reported =>
        /\ (decision = "go") <=>
               (Len(results) > 0 /\ 100 * CountOverall(results) >= 70 * Len(results))
        /\ decision \in {"go", "nogo"}
        /\ (Len(results) = 10 /\ CountOverall(results) = 7) =>
               (RateIs(success_rates.overall_rate, 70) /\ decision = "go")
        /\ (Len(results) = 10 /\ CountOverall(results) = 6) =>
               (RateIs(success_rates.overall_rate, 60) /\ decision = "nogo")

\* C9 witness: a batch of 10 with exactly 7 complete results is a go
C9_Witness ==
    /\ Reported
    /\ Len(results) = 10
    /\ CountOverall(results) = 7
    /\ decision = "go"

\* the count the report prints for a tier
TierCount(tier) == CounterGet(confidence_counts, tier)

\* C10: the counts the report lists for high, medium and low are
\* non-negative and sum to the number of results.
C10_HistogramSumsToTotal ==
    Reported =>
        /\ \A tier \in ReportedTiers : TierCount(tier) >= 0
        /\ TierCount("high") + TierCount("medium") + TierCount("low") = Len(results)

\* C10 witness: a batch with a result that kept its initial confidence (the
\* empty label) next to a high one
C10_Witness ==
    /\ Reported
    /\ TierCount("high") > 0
    /\ TierCount("low") > 0
    /\ \E k \in 1..Len(results) :
          /\ results[k].eval_nm = <<>>
          /\ results[k].confidence = "low"

-----------------------------------------------------------------------------
(* Properties of the batch loop (Spec) *)

\* test_parsing_on_samples has returned
Parsed == pc \in {"rates", "report"} \/ Reported

\* the k-th result is the extraction of the k-th label
ResultMatchesLabel(k) ==
    results[k] = ResultOf(eval_names[k],
                          extract_location_from_evalNm(eval_names[k], seoul_dongs))

\* C11: the results are, in input order, the extractions of the labels
\* processed so far, one per label; once the loop has returned there is
\* exactly one result per label of the batch.
C11_OnePerLabelInOrder ==
    /\ Len(results) <= Len(eval_names)
    /\ \A k \in 1..Len(results) : ResultMatchesLabel(k)
    /\ Parsed => Len(results) = Len(eval_names)

\* C11 witness: a batch of three different labels, not in the order in which
\* the sample labels are listed, has been processed
C11_Witness ==
    /\ Parsed
    /\ eval_names = <<LabelEmpty, LabelUlGuUlDong, LabelSeoul>>
    /\ Len(results) = 3
    /\ results[1].confidence = "low"
    /\ results[2].district = <<"ul", "gu">>
    /\ results[3].city = SeoulTeukbyeolsi

\* the gazetteer holds the same keys with the same lists in both states
SameGazetteer(before, after) ==
    /\ DOMAIN after = DOMAIN before
    /\ \A d \in DOMAIN before : after[d] = before[d]

\* C12: once load_seoul_dongs has returned, no step changes the gazetteer:
\* no key and no list entry is added, removed or changed, also when the
\* district looked up is no key.
C12_GazetteerReadOnly ==
    [][pc # "load_dongs" => SameGazetteer(seoul_dongs, seoul_dongs')]_vars

\* C12 witness: the list of a district that is no key of a non-empty
\* gazetteer has been looked up, and the gazetteer is as it was loaded
C12_Witness ==
    /\ Parsed
    /\ DOMAIN seoul_dongs # {}
    /\ SameGazetteer(load_seoul_dongs(dong_file), seoul_dongs)
    /\ \E k \in 1..Len(results) :
          /\ Truthy(results[k].dong)
          /\ results[k].district \notin DOMAIN seoul_dongs

\* main() has ended with an uncaught TypeError
RaisedTypeError == pc = "TypeError"

\* C13 as stated: a label that is no string makes the call signal an
\* InvalidInputError.
C13_Original ==
    (eval_nm \in MalformedLabels) => pc = "InvalidInputError"

\* C13 amended: a label that is no string makes the extract call raise
\* TypeError, which ends the batch: no result is produced for that label,
\* the labels before it have theirs, and neither rates nor report follow.
C13_MalformedRaisesTypeError ==
    /\ \A k \in 1..Len(results) : results[k].eval_nm \notin MalformedLabels
    /\ (eval_nm \in MalformedLabels) =>
          /\ RaisedTypeError
          /\ Len(results) < Len(eval_names)
          /\ eval_names[Len(results) + 1] = eval_nm
          /\ success_rates = NoRates
          /\ decision = "pending"
    /\ RaisedTypeError => eval_nm \in MalformedLabels
    /\ Parsed => \A k \in 1..Len(eval_names) : eval_names[k] \notin MalformedLabels

\* C13 witness: the third label of a batch is null; the two before it have
\* their results and the call on the third has raised
C13_Witness ==
    /\ RaisedTypeError
    /\ eval_nm = <<"NoneType">>
    /\ Len(eval_names) = 3
    /\ Len(results) = 2

-----------------------------------------------------------------------------
(* Properties of the loader (SpecLoad) *)

\* load_seoul_dongs has returned
Loaded == pc # "load_dongs"

\* the fields of the k-th line of the reference file
Fields(k) == Split(Strip(dong_file.content[k]), ",")

\* the lines after the first that are rows of district with dong
RowsOf(district, dong) ==
    {k \in 2..Len(dong_file.content) :
        /\ Len(Fields(k)) >= 3
        /\ Fields(k)[2] = district
        /\ Fields(k)[3] = dong}

\* the positions of dong in the gazetteer's list of district
EntriesOf(district, dong) ==
    {k \in 1..Len(DictGet(seoul_dongs, district)) : seoul_dongs[district][k] = dong}

\* the districts and the dongs the lines of LoadLines name
LoadDistricts == { <<"ul", "gu">>, <<"dae", "gu">>, <<"gu">> }

LoadDongNames == { <<"ul", "dong">>, <<"ul", "myeon">>, <<"dong">> }

-----------------------------------------------------------------------------
(* Properties of the district pass and the dong pass (SpecExtract) *)

\* the positions, among the matches, of those that are in S
PositionsIn(matches, S) == {k \in 1..Len(matches) : matches[k] \in S}

\* C15: with a district match that is a gazetteer key the returned district
\* is the leftmost such match and the city is 서울특별시, whatever the city
\* pass found; with matches none of which is a key the district is the first
\* match and the city is the one of the city pass; without matches the
\* district is none and the city is the one of the city pass.
C15_DistrictResolution ==
    Returned =>
        LET district_matches == ReFindAll(district_pattern, eval_nm)
            keys == PositionsIn(district_matches, DOMAIN seoul_dongs)
            city == CityPass(InitialLocation, eval_nm).city
        IN  /\ keys # {} =>
                  /\ location.district = district_matches[Min(keys)]
                  /\ location.city = SeoulTeukbyeolsi
            /\ (keys = {} /\ district_matches # <<>>) =>
                  /\ location.district = district_matches[1]
                  /\ location.city = city
            /\ district_matches = <<>> =>
                  /\ location.district = None
                  /\ location.city = city

\* C15 witness: the city pass finds 대구, the first district match 대구 is not
\* a gazetteer key, the second one is: the district is the second match and
\* the city 서울특별시
C15_Witness ==
    /\ Returned
    /\ ReSearchCity(eval_nm) = <<"dae", "gu">>
    /\ Len(ReFindAll(district_pattern, eval_nm)) = 2
    /\ ReFindAll(district_pattern, eval_nm)[1] \notin DOMAIN seoul_dongs
    /\ location.district = ReFindAll(district_pattern, eval_nm)[2]
    /\ location.city = SeoulTeukbyeolsi

\* C16: a result without district has no dong, dong matches or not; with a
\* district the returned dong is the leftmost dong match that is in the
\* gazetteer's list of the district, otherwise the first dong match, and
\* none without dong matches.
C16_DongResolution ==
    Returned =>
        LET dong_matches == ReFindAll(dong_pattern, eval_nm)
            valid == PositionsIn(dong_matches,
                                 Elems(DictGet(seoul_dongs, location.district)))
        IN  /\ location.district = None => location.dong = None
            /\ (location.district # None /\ valid # {}) =>
                  location.dong = dong_matches[Min(valid)]
            /\ (location.district # None /\ valid = {} /\ dong_matches # <<>>) =>
                  location.dong = dong_matches[1]
            /\ dong_matches = <<>> => location.dong = None

\* C16 witness: the district is 울구, the first dong match 울구동 is not in
\* the list of 울구 and the second one 울면 is: the dong is 울면
C16_Witness ==
    /\ Returned
    /\ location.district = <<"ul", "gu">>
    /\ ReFindAll(dong_pattern, eval_nm) = << <<"ul", "gu", "dong">>, <<"ul", "myeon">> >>
    /\ <<"ul", "gu", "dong">> \notin Elems(DictGet(seoul_dongs, location.district))
    /\ location.dong = <<"ul", "myeon">>

=============================================================================
